---- MODULE Spec2Model ----
(***************************************************************************)
(* Model of assessment/sr15_2.3.3_global_emissions_statistics.ipynb:       *)
(* the year-of-net-zero interpolation, add_statistics and the summary of   *)
(* the statistics collected over the scenario ensemble.                    *)
(***************************************************************************)
EXTENDS Integers, Sequences, FiniteSets, TLC

(***************************************************************************)
(* Bounds of the model.                                                    *)
(***************************************************************************)
\* series checked by SpecNZ have at most MaxLen (year, value) points
MaxLen == 3
\* whole-number emission values range over -MaxVal .. MaxVal
MaxVal == 2
\* the ensembles of Spec hold at most MaxScen scenarios
MaxScen == 7

(***************************************************************************)
(* Numbers.  The notebook computes with IEEE doubles.  A float is modelled *)
(* as a record: kind "nan", "inf", "-inf", or "num" with the value         *)
(* (num + eps * 2^-60) / den, den > 0.  eps # 0 only when num = 0: the sum *)
(* of a non-zero whole number and 2^-60 rounds to the whole number         *)
(* (2^-60 is below half an ulp of every |x| >= 1).  A fraction stands for  *)
(* the double nearest to it.  Where the two roundings of a / (d / n) leave *)
(* the double next to a whole number instead of the whole number, the kind *)
(* is "num-ulp" (one ulp nearer to zero than num / den) or "num+ulp" (one  *)
(* ulp farther from zero).  Kind "num*2^60" is the finite value            *)
(* (num / den) * 2^60, the quotient of a whole number and a multiple of    *)
(* 2^-60.                                                                  *)
(***************************************************************************)
NaN == [kind |-> "nan", num |-> 0, den |-> 1, eps |-> 0]

PosInf == [kind |-> "inf", num |-> 0, den |-> 1, eps |-> 0]

NegInf == [kind |-> "-inf", num |-> 0, den |-> 1, eps |-> 0]

Num(k) == [kind |-> "num", num |-> k, den |-> 1, eps |-> 0]

\* the double -2^-60: a negative value far below the rounding unit of 1.0
Tiny == [kind |-> "num", num |-> 0, den |-> 1, eps |-> -1]

\* the exceptions of year_of_net_zero: int() of nan, and a division of Python
\* scalars by zero
ValueError == [kind |-> "ValueError", num |-> 0, den |-> 1, eps |-> 0]

ZeroDivisionError == [kind |-> "ZeroDivisionError", num |-> 0, den |-> 1, eps |-> 0]

IsError(v) == v.kind \in {"ValueError", "ZeroDivisionError"}

isnan(v) == v.kind = "nan"

Abs(n) == IF n < 0 THEN -n ELSE n

RECURSIVE Gcd(_, _)
Gcd(a, b) == IF b = 0 THEN a ELSE Gcd(b, a % b)

\* a fraction n/d (d # 0) in lowest terms with a positive denominator
Frac(n, d) ==
  LET g == Gcd(Abs(n), Abs(d))
      s == IF d < 0 THEN -1 ELSE 1
  IN  [kind |-> "num", num |-> (s * n) \div g, den |-> (s * d) \div g, eps |-> 0]

\* sign of a finite number: -1, 0 or 1
Sign(v) ==
  IF v.num # 0 THEN (IF v.num < 0 THEN -1 ELSE 1)
  ELSE IF v.eps < 0 THEN -1 ELSE IF v.eps > 0 THEN 1 ELSE 0

\* a - b for two values of a series (whole numbers, Tiny or NaN)
FSub(a, b) ==
  IF isnan(a) \/ isnan(b) THEN NaN
  ELSE IF a.num - b.num # 0 THEN Num(a.num - b.num)
  ELSE [kind |-> "num", num |-> 0, den |-> 1, eps |-> a.eps - b.eps]

\* a / n for a difference a of two values and a whole number n, both Python
\* scalars: a zero divisor raises, whatever a is
FDivInt(a, n) ==
  IF n = 0 THEN ZeroDivisionError
  ELSE IF isnan(a) THEN NaN
  ELSE IF a.num # 0 THEN Frac(a.num, n)
  ELSE [kind |-> "num", num |-> 0, den |-> Abs(n),
        eps |-> IF n < 0 THEN -a.eps ELSE a.eps]

\* a / n for a value a of a pandas Series and a whole number n: a division
\* by zero gives nan or a signed infinity and raises nothing
SeriesDiv(a, n) ==
  IF n # 0 THEN FDivInt(a, n)
  ELSE IF isnan(a) \/ Sign(a) = 0 THEN NaN
  ELSE IF Sign(a) < 0 THEN NegInf ELSE PosInf

(***************************************************************************)
(* Rounding of a / x for x = fl(d / y), d and y coprime and positive, when *)
(* the exact quotient m = a * y / d is a whole number.  With k the binary  *)
(* exponent of d / y, the 53-bit significand of x is d * 2^(52-k) / y      *)
(* rounded to nearest; r is the remainder of that division.  x is exact    *)
(* when y is a power of two.  Otherwise x lies below d / y by              *)
(* r * 2^(k-52) / y (2r < y) or above it by (y - r) * 2^(k-52) / y, and    *)
(* a / x lies above or below m by m * w / (d * 2^(52-k) -+ w), w = r or    *)
(* y - r.  The division rounds that back to m unless the distance exceeds  *)
(* half the spacing of the doubles on that side of m.                      *)
(***************************************************************************)
RECURSIVE FloorLog2(_)
FloorLog2(n) == IF n < 2 THEN 0 ELSE 1 + FloorLog2(n \div 2)

CeilLog2(n) == IF n <= 1 THEN 0 ELSE 1 + FloorLog2(n - 1)

\* the k with 2^k <= n / d < 2^(k+1)
Log2Frac(n, d) ==
  IF n >= d THEN FloorLog2(n \div d) ELSE -CeilLog2((d + n - 1) \div n)

RECURSIVE Pow2(_)
Pow2(k) == IF k <= 0 THEN 1 ELSE 2 * Pow2(k - 1)

RECURSIVE Pow2Mod(_, _)
Pow2Mod(s, n) == IF s <= 0 THEN 1 % n ELSE (2 * Pow2Mod(s - 1, n)) % n

IsPow2(n) == n = Pow2(FloorLog2(n))

\* w * 2^g < d, and w * 2^g <= d
LessScaled(w, g, d) == IF g >= 0 THEN w * Pow2(g) < d ELSE w < d * Pow2(-g)

LeqScaled(w, g, d) == IF g >= 0 THEN w * Pow2(g) <= d ELSE w <= d * Pow2(-g)

\* -1, 0 or 1: the double a / fl(d / y) is one ulp below, equal to, or one ulp
\* above the whole number m = a * y / d
RoundOff(m, d, y) ==
  IF m = 0 \/ IsPow2(y) THEN 0
  ELSE LET k == Log2Frac(d, y)
           r == ((d % y) * Pow2Mod(52 - k, y)) % y
           j == FloorLog2(m)
       IN  IF 2 * r < y
             THEN (IF LessScaled(m * r, 1 - j + k, d) THEN 0 ELSE 1)
           ELSE IF LeqScaled(m * (y - r), (IF IsPow2(m) THEN 2 ELSE 1) - j + k, d)
             THEN 0
           ELSE -1

\* a / x for a difference a of two values (a whole number or a multiple of
\* 2^-60) and a slope x as FDivInt returns it, both Python scalars
FDiv(a, x) ==
  IF IsError(x) THEN x
  ELSE IF ~isnan(x) /\ Sign(x) = 0 THEN ZeroDivisionError
  ELSE IF isnan(a) \/ isnan(x) THEN NaN
  ELSE IF Sign(a) = 0 THEN Num(0)
  ELSE LET xn == IF x.num # 0 THEN Abs(x.num) ELSE Abs(x.eps)
           g == Gcd(xn, x.den)
           d == xn \div g
           y == x.den \div g
           n == (IF a.num # 0 THEN Abs(a.num) ELSE Abs(a.eps)) * y
           h == Gcd(n, d)
           sgn == Sign(a) * Sign(x)
           off == IF n % d = 0 THEN RoundOff(n \div d, d, y) ELSE 0
           scale == (IF x.num # 0 THEN 0 ELSE 1) - (IF a.num # 0 THEN 0 ELSE 1)
       IN  IF scale = 0
             THEN [kind |-> IF off = 0 THEN "num"
                            ELSE IF off < 0 THEN "num-ulp" ELSE "num+ulp",
                   num |-> sgn * (n \div h), den |-> d \div h, eps |-> 0]
           ELSE IF scale > 0
             THEN [kind |-> "num*2^60", num |-> sgn * (n \div h), den |-> d \div h,
                   eps |-> 0]
           ELSE [kind |-> "num", num |-> 0, den |-> d \div h, eps |-> sgn * (n \div h)]

\* a < b for a series value a and a whole number b (nan compares false)
FLess(a, b) ==
  /\ ~isnan(a)
  /\ \/ a.num < b
     \/ a.num = b /\ a.eps < 0

\* Python's int() of a finite quotient: truncation toward zero
IntTrunc(q) ==
  LET m == Abs(q.num) \div q.den
      w == IF q.kind = "num-ulp" THEN m - 1 ELSE m
  IN  IF q.num >= 0 THEN w ELSE -w

(***************************************************************************)
(* year_of_net_zero(data, years, threshold).  data is a sequence of series *)
(* values and years the sequence of their year columns.  The result is a   *)
(* whole number (the year), inf, or an exception: the ValueError int()     *)
(* raises on nan when the first observed value is already below the        *)
(* threshold, the ZeroDivisionError of a repeated year.                    *)
(***************************************************************************)
Min2(a, b) == IF a < b THEN a ELSE b

\* the return statement of the branch val < threshold.  With prev_yr nan the
\* slope and the quotient are nan and int() raises.  A quotient of kind
\* "num*2^60" gives a year of that kind: prev_yr + 1 is below its resolution.
CrossingYear(val, yr, prev_val, prev_yr, threshold) ==
  IF isnan(prev_yr) THEN ValueError
  ELSE LET x == FDivInt(FSub(val, prev_val), yr - prev_yr.num)
           q == FDiv(FSub(Num(threshold), prev_val), x)
       IN  IF IsError(q) THEN q
           ELSE IF isnan(q) THEN ValueError
           ELSE IF q.kind = "num*2^60" THEN q
           ELSE Num(prev_yr.num + IntTrunc(q) + 1)

\* the update of the pair (prev_val, prev_yr) after a value at or above the threshold
UpdatePrev(prev, val, yr) == [val |-> val, yr |-> Num(yr)]

\* what the loop does with a missing value: continue, prev untouched
SkipMissingMoves(prev, yr) == [val |-> prev.val, yr |-> Num(yr)]

SkipMissing(prev, yr) == prev

\* the test that ends the scan
BelowLoose(val, threshold) == FLess(val, threshold) \/ val = Num(threshold)

Below(val, threshold) == FLess(val, threshold)

RECURSIVE NetZeroLoop(_, _, _, _, _)
NetZeroLoop(data, years, threshold, k, prev) ==
  IF k > Min2(Len(data), Len(years)) THEN PosInf
  ELSE IF isnan(data[k])
    THEN NetZeroLoop(data, years, threshold, k + 1, SkipMissing(prev, years[k]))
  ELSE IF Below(data[k], threshold)
    THEN CrossingYear(data[k], years[k], prev.val, prev.yr, threshold)
  ELSE NetZeroLoop(data, years, threshold, k + 1, UpdatePrev(prev, data[k], years[k]))

year_of_net_zero(data, years, threshold) ==
  NetZeroLoop(data, years, threshold, 1, [val |-> Num(0), yr |-> NaN])

(***************************************************************************)
(* State.                                                                  *)
(***************************************************************************)
VARIABLES
  pc,        \* position of the run: the next notebook cell, or the state of the call
  nz_data,   \* SpecNZ: the series handed to year_of_net_zero
  nz_years,  \* SpecNZ: its year columns
  nz_ret,    \* SpecNZ: what the call returned or raised
  meta,      \* category of every scenario of the ensemble (df.meta)
  tables,    \* Spec: the timeseries tables the notebook hands to add_statistics
  call,      \* SpecAdd: the arguments of the add_statistics call
  stats,     \* the pyam.Statistics instance: cell key -> per-scenario values
  failed,    \* the cells (Spec) or calls (SpecAdd) that raised
  summary,   \* the summary table, once stats.summarize has run
  xlsx       \* the exported table, once summary.to_excel has run

vars == <<pc, nz_data, nz_years, nz_ret, meta, tables, call, stats, failed, summary, xlsx>>

statsVars == <<meta, tables, call, stats, failed, summary, xlsx>>

nzVars == <<nz_data, nz_years, nz_ret>>

(***************************************************************************)
(* SpecNZ: year_of_net_zero applied to every series of at most MaxLen      *)
(* points over the years of YearPool, with threshold 0 as add_statistics   *)
(* passes it.  Next to the small whole numbers the values hold 23 and -23: *)
(* over the 30 years from 2020 to 2050 the double 23 / (46 / 30) is the    *)
(* one below 15.                                                           *)
(***************************************************************************)
YearPool == {2010, 2020, 2025, 2030, 2050}

threshold0 == 0

Values == {Num(k) : k \in -MaxVal .. MaxVal} \cup {NaN, Tiny, Num(23), Num(-23)}

SetMin(S) == CHOOSE x \in S : \A y \in S : x <= y

RECURSIVE SortedSeq(_)
SortedSeq(S) ==
  IF S = {} THEN <<>> ELSE <<SetMin(S)>> \o SortedSeq(S \ {SetMin(S)})

Pending == [kind |-> "pending", num |-> 0, den |-> 1, eps |-> 0]

InitNZ ==
  /\ pc = "call"
  /\ \E Y \in SUBSET YearPool :
       /\ Cardinality(Y) <= MaxLen
       /\ nz_years = SortedSeq(Y)
       /\ nz_data \in [1 .. Cardinality(Y) -> Values]
  /\ nz_ret = Pending
  /\ meta = <<>> /\ tables = <<>> /\ call = <<>> /\ stats = <<>>
  /\ failed = {} /\ summary = [computed |-> FALSE, cells |-> <<>>]
  /\ xlsx = [written |-> FALSE, cells |-> <<>>]

CallYearOfNetZero ==
  /\ pc = "call"
  /\ nz_ret' = year_of_net_zero(nz_data, nz_years, threshold0)
  /\ pc' = IF IsError(nz_ret') THEN "raised" ELSE "returned"
  /\ UNCHANGED <<nz_data, nz_years>>
  /\ UNCHANGED statsVars

NextNZ == CallYearOfNetZero

SpecNZ == InitNZ /\ [][NextNZ]_vars

(***************************************************************************)
(* Reading a series independently of the loop: the first observed value    *)
(* below the threshold and the last observed value before it.              *)
(***************************************************************************)
Observed(data) == {k \in 1 .. Len(data) : ~isnan(data[k])}

BelowAt(data) == {k \in Observed(data) : FLess(data[k], threshold0)}

HasPrev(data) ==
  BelowAt(data) # {} /\ \E j \in Observed(data) : j < SetMin(BelowAt(data))

FirstBelow(data) == SetMin(BelowAt(data))

LastBefore(data) ==
  CHOOSE j \in Observed(data) :
    /\ j < FirstBelow(data)
    /\ \A i \in Observed(data) : i < FirstBelow(data) => i <= j

\* the (year, value) points of a series that are not missing
RECURSIVE DropMissing(_, _)
DropMissing(data, years) ==
  IF Len(data) = 0 THEN [data |-> <<>>, years |-> <<>>]
  ELSE LET rest == DropMissing(Tail(data), Tail(years))
       IN  IF isnan(Head(data)) THEN rest
           ELSE [data |-> <<Head(data)>> \o rest.data,
                 years |-> <<Head(years)>> \o rest.years]

\* floor of pv * dy / (pv - v) in exact arithmetic, for pv >= 0 > v and dy > 0;
\* v = -2^-60 makes the divisor exceed pv by 2^-60
ExactFloor(pv, v, dy) ==
  LET n == pv.num * dy
      d == pv.num - v.num
  IN  IF d = 0 THEN 0
      ELSE IF v.eps < 0 /\ n > 0 /\ n % d = 0 THEN n \div d - 1
      ELSE n \div d

\* C1: when the first observed value v (year y) below the threshold follows a
\* last observed value pv (year py), the result is
\* py + floor((threshold - pv) / slope) + 1 with slope = (v - pv) / (y - py);
\* years [2020, 2030] with values [1, -1] give 2026.
C1_InterpolatedYear ==
  pc # "call" =>
    /\ HasPrev(nz_data) =>
         LET k == FirstBelow(nz_data)
             j == LastBefore(nz_data)
         IN  nz_ret = Num(nz_years[j]
                          + ExactFloor(nz_data[j], nz_data[k], nz_years[k] - nz_years[j])
                          + 1)
    /\ (nz_years = <<2020, 2030>> /\ nz_data = <<Num(1), Num(-1)>>) => nz_ret = Num(2026)

\* C2: a series with no observed value below the threshold (values equal to the
\* threshold, all missing, or empty included) gives positive infinity.
C2_NeverBelowIsInf ==
  (pc # "call" /\ BelowAt(nz_data) = {}) => nz_ret = PosInf

C2_Witness ==
  /\ pc = "returned"
  /\ Len(nz_data) = 3
  /\ nz_data[1] = Num(1) /\ nz_data[2] = NaN /\ nz_data[3] = Num(0)
  /\ nz_ret = PosInf

\* C5: missing values are skipped without touching prev_val / prev_yr: the
\* result is the result on the series with its missing points removed.
C5_MissingPointsIgnored ==
  pc # "call" =>
    LET d == DropMissing(nz_data, nz_years)
    IN  nz_ret = year_of_net_zero(d.data, d.years, threshold0)

C5_Witness ==
  /\ pc = "returned"
  /\ nz_years = <<2010, 2020, 2030>>
  /\ nz_data = <<Num(1), NaN, Num(-1)>>
  /\ nz_ret = Num(2021)

\* C10: a finite result r for a series whose first observed value is not below
\* the threshold satisfies py < r <= y, and the values after y do not matter.
C10_WithinInterval ==
  (pc = "returned" /\ nz_ret # PosInf) =>
    LET k == FirstBelow(nz_data)
        j == LastBefore(nz_data)
    IN  /\ nz_years[j] < nz_ret.num
        /\ nz_ret.num <= nz_years[k]
        /\ nz_ret = year_of_net_zero(SubSeq(nz_data, 1, k), SubSeq(nz_years, 1, k),
                                     threshold0)

(***************************************************************************)
(* The pyam.Statistics instance and add_statistics.                        *)
(*                                                                         *)
(* A timeseries table is [cols |-> <<years>>, rows |-> [scenario -> values *)
(* in column order]].  stats maps a cell key <<cohort, row, header,        *)
(* subheader>> to the values added for the scenarios of that cohort; the   *)
(* descriptive statistics of a cell are functions of these values.         *)
(***************************************************************************)
Range(f) == {f[k] : k \in DOMAIN f}

cats_15_no_lo == {"Below 1.5C", "1.5C low overshoot"}

\* the filters of the Statistics instance, in the order given
Filters ==
  << [name |-> "below 1.5", category |-> {"Below 1.5C"}],
     [name |-> "lo os 1.5", category |-> {"1.5C low overshoot"}],
     [name |-> "no & lo os 1.5", category |-> cats_15_no_lo],
     [name |-> "hi os 1.5", category |-> {"1.5C high overshoot"}],
     [name |-> "lower 2.0", category |-> {"Lower 2C"}],
     [name |-> "higher 2.0", category |-> {"Higher 2C"}],
     [name |-> "lower 2.5", category |-> {"Lower 2.5C"}],
     [name |-> "lower 3.0", category |-> {"Lower 3C"}] >>

Cohorts == {f.name : f \in Range(Filters)}

FilterCategory(name) == (CHOOSE f \in Range(Filters) : f.name = name).category

years == <<2010, 2020, 2030, 2040, 2050, 2060, 2070, 2080, 2090, 2100>>

compare_years == << <<2010, 2030>>, <<2020, 2030>>, <<2030, 2050>> >>

header == "Annual emissions/sequestration (GtCO2)"

header_change == "Absolute annual change (GtCO2)"

header_zero == "Timing of global zero"

\* subheaders: a year column of the snapshot, '{}-{}'.format(i, j), and 'year'
SubYear(y) == [fmt |-> "{}", i |-> y, j |-> y]

SubPair(i, j) == [fmt |-> "{}-{}", i |-> i, j |-> j]

SubLabel == [fmt |-> "year", i |-> 0, j |-> 0]

\* position of year column y in a table
ColIndex(data, y) == CHOOSE k \in 1 .. Len(data.cols) : data.cols[k] = y

\* data[y]: one column, as a value per scenario
Column(data, y) == [s \in DOMAIN data.rows |-> data.rows[s][ColIndex(data, y)]]

\* stats.add(values, header, row, subheader): one cell per filter, holding the
\* values of the scenarios the filter selects
StatsAdd(st, m, values, h, row, sub) ==
  LET newKeys == {<<c, row, h, sub>> : c \in Cohorts}
      cell(c) == [s \in {t \in DOMAIN values : m[t] \in FilterCategory(c)} |-> values[s]]
  IN  [key \in newKeys |-> cell(key[1])] @@ st

\* stats.add(data[years], header, row): every reference year is a subheader
RECURSIVE AddSnapshot(_, _, _, _, _, _, _)
AddSnapshot(st, m, data, row, yrs, h, k) ==
  IF k > Len(yrs) THEN st
  ELSE AddSnapshot(StatsAdd(st, m, Column(data, yrs[k]), h, row, SubYear(yrs[k])),
                   m, data, row, yrs, h, k + 1)

\* abs_ann_change = (data[j] - data[i]) / (j - i)
AbsAnnChangeFillZero(data, i, j) ==
  [s \in DOMAIN data.rows |->
     LET a == Column(data, j)[s]
         b == Column(data, i)[s]
     IN  SeriesDiv(FSub(IF isnan(a) THEN Num(0) ELSE a, IF isnan(b) THEN Num(0) ELSE b),
                   j - i)]

AbsAnnChange(data, i, j) ==
  [s \in DOMAIN data.rows |->
     SeriesDiv(FSub(Column(data, j)[s], Column(data, i)[s]), j - i)]

\* the loop over compare_years
RECURSIVE AddChanges(_, _, _, _, _, _, _)
AddChanges(st, m, data, row, pairs, h, k) ==
  IF k > Len(pairs) THEN st
  ELSE LET i == pairs[k][1]
           j == pairs[k][2]
       IN  AddChanges(StatsAdd(st, m, AbsAnnChange(data, i, j), h, row, SubPair(i, j)),
                      m, data, row, pairs, h, k + 1)

\* the table whose rows year_of_net_zero scans: data, with years = data.columns
NetZeroInputReferenceYears(data, yrs) ==
  [cols |-> yrs,
   rows |-> [s \in DOMAIN data.rows |->
               [k \in 1 .. Len(yrs) |-> data.rows[s][ColIndex(data, yrs[k])]]]]

NetZeroInput(data, yrs) == data

\* netzero = data.apply(year_of_net_zero, years=data.columns, threshold=0, axis=1)
NetZero(data, yrs) ==
  LET d == NetZeroInput(data, yrs)
  IN  [s \in DOMAIN d.rows |-> year_of_net_zero(d.rows[s], d.cols, threshold0)]

\* add_statistics: the statistics after the call, and whether it raised.  The
\* exception of year_of_net_zero leaves data.apply and add_statistics after the
\* snapshot and the annual changes have been added; errors holds the exceptions
\* of the failing rows (the first of them is the one raised; with distinct year
\* columns each is a ValueError).
add_statistics(st, m, data, row, yrs, pairs, h, h_change, h_zero, add_netzero) ==
  LET st1 == AddSnapshot(st, m, data, row, yrs, h, 1)
      st2 == AddChanges(st1, m, data, row, pairs, h_change, 1)
      netzero == NetZero(data, yrs)
      errors == {netzero[s].kind : s \in {t \in DOMAIN netzero : IsError(netzero[t])}}
  IN  IF ~add_netzero THEN [stats |-> st2, raised |-> FALSE, errors |-> {}]
      ELSE IF errors # {}
        THEN [stats |-> st2, raised |-> TRUE, errors |-> errors]
      ELSE [stats |-> StatsAdd(st2, m, netzero, h_zero, row, SubLabel),
            raised |-> FALSE, errors |-> {}]

\* count of a cell, as describe() counts: the values that are not missing
Count(cell) == Cardinality({s \in DOMAIN cell : ~isnan(cell[s])})

(***************************************************************************)
(* SpecAdd: one call of add_statistics on an empty Statistics instance,    *)
(* for every table over AddCols of a two-scenario ensemble, reference      *)
(* years, year pairs (start >= end included) and add_netzero.              *)
(***************************************************************************)
AddCols == <<2010, 2020, 2030>>

TableValues == {Num(k) : k \in (-MaxVal .. MaxVal) \cup {10}} \cup {NaN}

\* the second scenario keeps one series, with a missing value between its
\* last value above and its first value below zero
FixedRows == { <<Num(1), NaN, Num(-1)>> }

AddYearPairs ==
  {<<p>> : p \in Range(AddCols) \X Range(AddCols)}
    \cup { << <<2010, 2030>>, <<2020, 2030>> >> }

NoSummary == [computed |-> FALSE, cells |-> <<>>]

NoExport == [written |-> FALSE, cells |-> <<>>]

InitAdd ==
  /\ pc = "call"
  /\ meta = [s \in {<<"s", 1>>, <<"s", 2>>} |->
               IF s[2] = 1 THEN "Below 1.5C" ELSE "Lower 2C"]
  /\ \E r1 \in [1 .. Len(AddCols) -> TableValues], r2 \in FixedRows,
        yrs \in {<<2010, 2030>>, AddCols}, pairs \in AddYearPairs, nz \in BOOLEAN :
       call = [data |-> [cols |-> AddCols,
                         rows |-> [s \in DOMAIN meta |-> IF s[2] = 1 THEN r1 ELSE r2]],
               row |-> "Total CO2 (net)",
               years |-> yrs,
               compare_years |-> pairs,
               add_netzero |-> nz]
  /\ stats = <<>>
  /\ failed = {}
  /\ tables = <<>>
  /\ summary = NoSummary
  /\ xlsx = NoExport
  /\ nz_data = <<>> /\ nz_years = <<>> /\ nz_ret = Pending

CallResult ==
  add_statistics(stats, meta, call.data, call.row, call.years, call.compare_years,
                 header, header_change, header_zero, call.add_netzero)

AddStatisticsReturns ==
  /\ pc = "call"
  /\ ~CallResult.raised
  /\ stats' = CallResult.stats
  /\ pc' = "returned"
  /\ UNCHANGED <<meta, tables, call, failed, summary, xlsx>>
  /\ UNCHANGED nzVars

AddStatisticsRaises ==
  /\ pc = "call"
  /\ CallResult.raised
  /\ stats' = CallResult.stats
  /\ failed' = CallResult.errors
  /\ pc' = "raised"
  /\ UNCHANGED <<meta, tables, call, summary, xlsx>>
  /\ UNCHANGED nzVars

NextAdd == AddStatisticsReturns \/ AddStatisticsRaises

SpecAdd == InitAdd /\ [][NextAdd]_vars

\* the scenarios of the called table that a cohort selects
Members(c) == {s \in DOMAIN call.data.rows : meta[s] \in FilterCategory(c)}

PairsOf(pairs) == {pairs[k] : k \in DOMAIN pairs}

\* C3: for each year pair (start, end) with start < end and each scenario, the
\* annual change added is (value[end] - value[start]) / (end - start), e.g.
\* 10.0 and 0.0 over (2010, 2030) give -0.5; it is missing, never zero, when
\* the value at either endpoint is missing.
C3_AnnualChange ==
  pc # "call" =>
    \A p \in PairsOf(call.compare_years), c \in Cohorts :
      (p[1] < p[2] /\ Members(c) # {}) =>
        LET key == <<c, call.row, header_change, SubPair(p[1], p[2])>>
        IN  /\ key \in DOMAIN stats
            /\ DOMAIN stats[key] = Members(c)
            /\ \A s \in Members(c) :
                 LET a == Column(call.data, p[1])[s]
                     b == Column(call.data, p[2])[s]
                     ch == stats[key][s]
                 IN  /\ (isnan(a) \/ isnan(b)) => isnan(ch)
                     /\ (~isnan(a) /\ ~isnan(b)) =>
                          /\ ch.kind = "num" /\ ch.eps = 0
                          /\ ch.num * (p[2] - p[1]) = (b.num - a.num) * ch.den
                     /\ (a = Num(10) /\ b = Num(0) /\ p = <<2010, 2030>>) =>
                          (ch.num = -1 /\ ch.den = 2)

C3_Witness ==
  /\ pc = "returned"
  /\ call.compare_years = << <<2010, 2030>>, <<2020, 2030>> >>
  /\ call.data.rows[<<"s", 1>>] = <<Num(10), NaN, Num(0)>>
  /\ LET k1 == <<"below 1.5", call.row, header_change, SubPair(2010, 2030)>>
         k2 == <<"below 1.5", call.row, header_change, SubPair(2020, 2030)>>
     IN  /\ k1 \in DOMAIN stats /\ k2 \in DOMAIN stats
         /\ stats[k1][<<"s", 1>>] = [kind |-> "num", num |-> -1, den |-> 2, eps |-> 0]
         /\ stats[k2][<<"s", 1>>] = NaN

\* C8: a year pair with start >= end makes add_statistics fail fast with
\* MalformedYearPair, and no annual-change value is added for that pair.
C8_MalformedPairRejected ==
  pc # "call" =>
    \A p \in PairsOf(call.compare_years), c \in Cohorts :
      p[1] >= p[2] =>
        /\ "MalformedYearPair" \in failed
        /\ <<c, call.row, header_change, SubPair(p[1], p[2])>> \notin DOMAIN stats

\* C9: only the snapshot is restricted to the reference years; the year of
\* net-zero is computed over every year column, so a first value below the
\* threshold at a year that is no reference year decides the reported year:
\* the reported year is the crossing between the last observed value before
\* and the first value below the threshold among all columns of the table.
C9_NetZeroOverAllColumns ==
  (pc = "returned" /\ call.add_netzero) =>
    \A c \in {d \in Cohorts : Members(d) # {}} :
      LET key == <<c, call.row, header_zero, SubLabel>>
      IN  /\ key \in DOMAIN stats
          /\ {k[4] : k \in {q \in DOMAIN stats : q[1] = c /\ q[3] = header}}
               = {SubYear(y) : y \in Range(call.years)}
          /\ \A s \in Members(c) :
               LET series == call.data.rows[s]
                   cols == call.data.cols
               IN  /\ BelowAt(series) = {} => stats[key][s] = PosInf
                   /\ HasPrev(series) =>
                        LET k == FirstBelow(series)
                            j == LastBefore(series)
                        IN  stats[key][s] =
                              CrossingYear(series[k], cols[k], series[j], Num(cols[j]),
                                           threshold0)

C9_Witness ==
  /\ pc = "returned"
  /\ call.add_netzero
  /\ call.years = <<2010, 2030>>
  /\ call.data.rows[<<"s", 1>>] = <<Num(1), Num(-1), Num(-1)>>
  /\ <<"below 1.5", call.row, header_zero, SubLabel>> \in DOMAIN stats
  /\ stats[<<"below 1.5", call.row, header_zero, SubLabel>>][<<"s", 1>>] = Num(2016)
  /\ <<"below 1.5", call.row, header, SubYear(2020)>> \notin DOMAIN stats

(***************************************************************************)
(* Spec: the notebook run.  The cells that act on the Statistics instance, *)
(* in notebook order: six add_statistics calls, stats.summarize and        *)
(* summary.to_excel.                                                       *)
(***************************************************************************)
Cell(op, table, row, add_netzero) ==
  [op |-> op, table |-> table, row |-> row, add_netzero |-> add_netzero]

Cells ==
  << Cell("add_statistics", "co2", "Total CO2 (net)", TRUE),
     Cell("add_statistics", "co2_ene_ind_gross",
          "CO2 from fossil fuels and industry (gross)", FALSE),
     Cell("add_statistics", "co2_ene_ind",
          "CO2 from fossil fuels and industry (net)", FALSE),
     Cell("add_statistics", "co2_afolu", "CO2 from AFOLU", FALSE),
     Cell("add_statistics", "ccs_bio",
          "Bioenergy combined with carbon capture and storage (BECCS)", FALSE),
     Cell("add_statistics", "ghg", "Kyoto GHG (AR4, GtCO2e)", TRUE),
     Cell("summarize", "", "", FALSE),
     Cell("to_excel", "", "", FALSE) >>

\* the arguments of the call stats.summarize(center='median', interquartile=True,
\* custom_format='{:.1f}'); fullrange is not passed
summarize_args_fullrange ==
  [center |-> "median", fullrange |-> TRUE, interquartile |-> FALSE,
   custom_format |-> "{:.1f}"]

summarize_args ==
  [center |-> "median", fullrange |-> FALSE, interquartile |-> TRUE,
   custom_format |-> "{:.1f}"]

\* how pyam.Statistics.summarize formats one cell from its count: nothing for a
\* cell without values, the median alone for a single value, otherwise the
\* center with the range the arguments ask for (fullrange: min and max,
\* interquartile: 25% and 75%).  The count plays no part in the choice of the
\* range: the note above the call says that the full range for cells with
\* fewer than 7 scenarios is not supported by pyam.Statistics.
format_rows(count, args) ==
  IF count = 0
    THEN [count |-> count, center |-> "", lower |-> "", upper |-> "",
          format |-> args.custom_format]
  ELSE IF count = 1
    THEN [count |-> count, center |-> "median", lower |-> "", upper |-> "",
          format |-> args.custom_format]
  ELSE [count |-> count,
        center |-> args.center,
        lower |-> IF args.fullrange THEN "min" ELSE "25%",
        upper |-> IF args.fullrange THEN "max" ELSE "75%",
        format |-> args.custom_format]

\* one cell of the summary: its count and the statistics shown
FormatCell(cell) == format_rows(Count(cell), summarize_args)

\* summarize, then swaplevel(0, 1): the summary is keyed <<row, cohort, header, subheader>>
Swap(key) == <<key[2], key[1], key[3], key[4]>>

Summarize(st) == [key \in {Swap(k) : k \in DOMAIN st} |-> FormatCell(st[Swap(key)])]

(***************************************************************************)
(* The ensembles of Spec.  Columns are the year columns of the tables.  A  *)
(* scenario follows one of four profiles, which give its category and its  *)
(* series: co2 for 'Emissions|CO2', ghg for the Kyoto gases, sector for    *)
(* the four tables added without net-zero year.                            *)
(***************************************************************************)
Columns == <<2005, 2010, 2020, 2025, 2030, 2040, 2050, 2060, 2070, 2080, 2090, 2100>>

ToSeries(ints, missing) ==
  [k \in DOMAIN ints |-> IF k \in missing THEN NaN ELSE Num(ints[k])]

Profiles ==
  [ steady |->
      [category |-> "Below 1.5C",
       co2 |-> ToSeries(<<4, 4, 3, 2, 2, 1, -1, -1, -2, -2, -2, -2>>, {}),
       sector |-> ToSeries(<<3, 3, 3, 2, 2, 1, 1, 0, 0, 0, 0, 0>>, {}),
       ghg |-> ToSeries(<<5, 5, 4, 4, 3, 2, 1, 1, 1, 1, 1, 1>>, {})],
    overshoot |->
      [category |-> "1.5C low overshoot",
       co2 |-> ToSeries(<<4, 4, 1, -1, -1, -2, -2, -2, -1, -1, 0, 0>>, {}),
       sector |-> ToSeries(<<3, 3, 2, 2, 0, 1, 1, 0, 0, 0, 0, 0>>, {5}),
       ghg |-> ToSeries(<<5, 5, 3, 2, 1, 1, 0, -1, -1, -1, -1, -1>>, {})],
    negative |->
      [category |-> "Lower 2C",
       co2 |-> ToSeries(<<0, -1, -1, -1, -2, -2, -2, -2, -2, -2, -2, -2>>, {1}),
       sector |-> ToSeries(<<2, 2, 2, 1, 1, 1, 0, 0, 0, 0, 0, 0>>, {}),
       ghg |-> ToSeries(<<3, 3, 2, 2, 1, 1, 1, 0, 0, 0, 0, 0>>, {})],
    late |->
      [category |-> "Higher 2C",
       co2 |-> ToSeries(<<4, 4, 4, 3, 3, 2, 2, 1, 1, 1, 1, 0>>, {}),
       sector |-> ToSeries(<<3, 3, 3, 3, 2, 2, 2, 1, 1, 1, 1, 1>>, {1}),
       ghg |-> ToSeries(<<-1, -1, 0, 0, 0, 0, 0, 0, 0, 0, 0, 0>>, {})] ]

ProfileNames == DOMAIN Profiles

RECURSIVE SumOver(_, _)
SumOver(f, S) ==
  IF S = {} THEN 0
  ELSE LET x == CHOOSE y \in S : TRUE IN f[x] + SumOver(f, S \ {x})

TableNames == {c.table : c \in {d \in Range(Cells) : d.op = "add_statistics"}}

SeriesOf(profile, table) ==
  IF table = "co2" THEN Profiles[profile].co2
  ELSE IF table = "ghg" THEN Profiles[profile].ghg
  ELSE Profiles[profile].sector

Ready(k) == [cell |-> k, state |-> "ready"]

\* the state before the first add_statistics cell, for an ensemble drawn from
\* the scenario counts N of the profiles
Start(N) ==
  /\ pc = Ready(1)
  /\ \E n \in N :
       /\ SumOver(n, ProfileNames) \in 1 .. MaxScen
       /\ meta = [s \in {<<p, i>> : p \in ProfileNames, i \in 1 .. MaxScen} \cap
                        {t \in ProfileNames \X (1 .. MaxScen) : t[2] <= n[t[1]]} |->
                    Profiles[s[1]].category]
  /\ tables = [t \in TableNames |->
                 [cols |-> Columns, rows |-> [s \in DOMAIN meta |-> SeriesOf(s[1], t)]]]
  /\ stats = <<>>
  /\ failed = {}
  /\ summary = NoSummary
  /\ xlsx = NoExport
  /\ call = <<>>
  /\ nz_data = <<>> /\ nz_years = <<>> /\ nz_ret = Pending

Init == Start([ProfileNames -> 0 .. MaxScen])

AtCell(op) ==
  /\ pc.state = "ready"
  /\ pc.cell \in DOMAIN Cells
  /\ Cells[pc.cell].op = op

\* the position after the cell at pc, or the end of the notebook
After(k) == IF k < Len(Cells) THEN Ready(k + 1) ELSE [cell |-> k, state |-> "done"]

CellResult ==
  add_statistics(stats, meta, tables[Cells[pc.cell].table], Cells[pc.cell].row,
                 years, compare_years, header, header_change, header_zero,
                 Cells[pc.cell].add_netzero)

\* an add_statistics cell that runs to its end
RunAddStatistics ==
  /\ AtCell("add_statistics")
  /\ ~CellResult.raised
  /\ stats' = CellResult.stats
  /\ pc' = After(pc.cell)
  /\ UNCHANGED <<meta, tables, call, failed, summary, xlsx>>
  /\ UNCHANGED nzVars

\* an add_statistics cell whose net-zero computation raises: what was added
\* before stays; running all cells stops there, running cell by cell goes on
FailAddStatistics ==
  /\ AtCell("add_statistics")
  /\ CellResult.raised
  /\ stats' = CellResult.stats
  /\ failed' = failed \cup {pc.cell}
  /\ \/ pc' = [cell |-> pc.cell, state |-> "interrupted"]
     \/ pc' = After(pc.cell)
  /\ UNCHANGED <<meta, tables, call, summary, xlsx>>
  /\ UNCHANGED nzVars

RunSummarize ==
  /\ AtCell("summarize")
  /\ summary' = [computed |-> TRUE, cells |-> Summarize(stats)]
  /\ pc' = After(pc.cell)
  /\ UNCHANGED <<meta, tables, call, stats, failed, xlsx>>
  /\ UNCHANGED nzVars

RunToExcel ==
  /\ AtCell("to_excel")
  /\ summary.computed
  /\ xlsx' = [written |-> TRUE, cells |-> summary.cells]
  /\ pc' = After(pc.cell)
  /\ UNCHANGED <<meta, tables, call, stats, failed, summary>>
  /\ UNCHANGED nzVars

Next == RunAddStatistics \/ FailAddStatistics \/ RunSummarize \/ RunToExcel

Spec == Init /\ [][Next]_vars

(***************************************************************************)
(* SpecCells: the notebook run one cell at a time, for the ensembles with  *)
(* at most one scenario of each profile.  Nothing ties the cell of         *)
(* stats.summarize to the end of the sequence: it may be run for an        *)
(* interim table while add_statistics cells are still to come.             *)
(***************************************************************************)
InitCells == Start([ProfileNames -> 0 .. 1])

\* the cell of stats.summarize, run before the add_statistics cell at pc
RunSummarizeAhead ==
  /\ AtCell("add_statistics")
  /\ summary' = [computed |-> TRUE, cells |-> Summarize(stats)]
  /\ UNCHANGED <<pc, meta, tables, call, stats, failed, xlsx>>
  /\ UNCHANGED nzVars

NextCells == Next \/ RunSummarizeAhead

SpecCells == InitCells /\ [][NextCells]_vars

C6_FinalizedIsFrozen ==
  [][summary.computed => (stats' = stats /\ summary' = summary)]_vars

\* the subheaders add_statistics is asked to fill for a cell of the notebook
ExpectedCells(k) ==
  LET c == Cells[k]
  IN  {<<c.row, header, SubYear(y)>> : y \in Range(years)}
        \cup {<<c.row, header_change, SubPair(p[1], p[2])>> : p \in Range(compare_years)}
        \cup (IF c.add_netzero THEN {<<c.row, header_zero, SubLabel>>} ELSE {})

\* the scenarios of cell k's table whose net-zero computation raises
Undefined(k) ==
  {s \in DOMAIN meta :
     /\ Cells[k].add_netzero
     /\ IsError(year_of_net_zero(tables[Cells[k].table].rows[s], Columns, threshold0))}

\* C7: an undefined interpolation for one scenario is confined to the
\* affected cell; the run goes on and every other cell of the report (of a
\* cohort that has scenarios), those of later add_statistics calls included,
\* is summarized.
C7_ErrorConfinedToCell ==
  pc.state \in {"done", "interrupted"} =>
    /\ summary.computed
    /\ \A k \in {i \in DOMAIN Cells : Cells[i].op = "add_statistics"},
          c \in {d \in Cohorts : \E s \in DOMAIN meta : meta[s] \in FilterCategory(d)} :
         \A e \in ExpectedCells(k) :
           \/ <<e[1], c, e[2], e[3]>> \in DOMAIN summary.cells
           \/ /\ e[2] = header_zero
              /\ \E s \in Undefined(k) : meta[s] \in FilterCategory(c)

====
